---- MODULE Spec2Model ----
(***************************************************************************)
(* Model of pmeenan/pervasive, src/pervasive.py: class Collect.            *)
(*                                                                         *)
(* Strings are sequences of one-character strings, so that slicing,        *)
(* replacing, splitting, glob matching and difflib's block alignment are   *)
(* computed character by character as Python computes them.  Python dicts  *)
(* keep insertion order, which the code depends on (list(d.keys())[0]), so *)
(* a dict is a sequence of [k |-> key, v |-> value] entries.               *)
(***************************************************************************)
EXTENDS Integers, Sequences, FiniteSets, TLC

(***************************************************************************)
(* Program constants (src/pervasive.py:17-27)                              *)
(***************************************************************************)
PERVASIVE_COUNT == 100000
MAX_URL_LENGTH == 200
SIZE_MATCH_PERCENT == 5
MIN_STABLE_PATH == 2
\* MIN_FILENAME_RATIO = 0.5 is kept as the fraction 1/2
MIN_FILENAME_RATIO_NUM == 1
MIN_FILENAME_RATIO_DEN == 2
MAX_FILENAME_MATCHING_BLOCKS == 3
MAX_FILENAME_LENGTH_DIFFERENCE == 2
BLOCKLIST == << <<"c","h","u","n","k">> >>
WILDCARD_REPLACE == << <<"e","n","_","U","S">> >>
FILENAME_IGNORE ==
    << <<".","j","s">>, <<".","c","s","s">>, <<"b","u","n","d","l","e">>,
       <<".","m","i","n">>, <<".">>, <<"-">>, <<"[">>, <<"]">> >>

(***************************************************************************)
(* Python built-ins on str and list                                        *)
(***************************************************************************)
\* None, as a value no str equals: a str is a sequence of one-character strings
None == <<"None">>

Min(a, b) == IF a < b THEN a ELSE b
Max(a, b) == IF a > b THEN a ELSE b

\* s[lo:hi] with 0-based lo (inclusive) and hi (exclusive)
Slice(s, lo, hi) == SubSeq(s, lo + 1, hi)

\* x in list
InSeq(x, s) == \E i \in 1..Len(s) : s[i] = x

\* s.startswith(sub, i), i 0-based
StartsAt(s, sub, i) ==
    /\ i + Len(sub) <= Len(s)
    /\ \A k \in 1..Len(sub) : s[i + k] = sub[k]

\* s.find(sub, from): 0-based index of the first occurrence, -1 if none
RECURSIVE StrFind(_, _, _)
StrFind(s, sub, from) ==
    IF from + Len(sub) > Len(s) THEN -1
    ELSE IF StartsAt(s, sub, from) THEN from
    ELSE StrFind(s, sub, from + 1)

\* sub in s
StrContains(s, sub) == StrFind(s, sub, 0) # -1

\* s.replace(old, new): every non-overlapping occurrence, left to right
RECURSIVE StrReplace(_, _, _)
StrReplace(s, old, new) ==
    LET i == StrFind(s, old, 0)
    IN  IF i = -1 THEN s
        ELSE Slice(s, 0, i) \o new
                \o StrReplace(Slice(s, i + Len(old), Len(s)), old, new)

\* s.split('/')
RECURSIVE StrSplit(_)
StrSplit(s) ==
    LET i == StrFind(s, <<"/">>, 0)
    IN  IF i = -1 THEN <<s>>
        ELSE <<Slice(s, 0, i)>> \o StrSplit(Slice(s, i + 1, Len(s)))

\* path.split('/')[-1]
LastPart(path) == LET parts == StrSplit(path) IN parts[Len(parts)]

\* code point order of the characters that occur in the modelled URLs
Ascii ==
    <<"*", "-", ".", "/", "0", "1", "2", "3", "4", "5", "6", "7", "8", "9",
      ":", "S", "U", "[", "]", "_", "a", "b", "c", "d", "e", "f", "g", "h",
      "i", "j", "k", "l", "m", "n", "o", "p", "q", "r", "s", "t", "u", "v",
      "w", "x", "y", "z">>

Ord(c) == CHOOSE i \in 1..Len(Ascii) : Ascii[i] = c

\* s < t for str
RECURSIVE StrLess(_, _)
StrLess(s, t) ==
    IF t = <<>> THEN FALSE
    ELSE IF s = <<>> THEN TRUE
    ELSE IF s[1] = t[1] THEN StrLess(Tail(s), Tail(t))
    ELSE Ord(s[1]) < Ord(t[1])

\* list.sort() on a list of str (insertion sort; the result is unique)
RECURSIVE SortInsert(_, _)
SortInsert(sorted, x) ==
    IF sorted = <<>> THEN <<x>>
    ELSE IF StrLess(x, sorted[1]) THEN <<x>> \o sorted
    ELSE <<sorted[1]>> \o SortInsert(Tail(sorted), x)

RECURSIVE SortStrings(_)
SortStrings(l) ==
    IF l = <<>> THEN <<>>
    ELSE SortInsert(SortStrings(SubSeq(l, 1, Len(l) - 1)), l[Len(l)])

\* list.remove(x): drops the first occurrence (the caller checks presence)
RECURSIVE ListRemove(_, _)
ListRemove(l, x) ==
    IF l = <<>> THEN <<>>
    ELSE IF l[1] = x THEN Tail(l)
    ELSE <<l[1]>> \o ListRemove(Tail(l), x)

(***************************************************************************)
(* Insertion-ordered dict                                                  *)
(***************************************************************************)
DHas(d, key) == \E i \in 1..Len(d) : d[i].k = key
DIdx(d, key) == CHOOSE i \in 1..Len(d) : d[i].k = key
DGet(d, key) == d[DIdx(d, key)].v
DPut(d, key, val) ==
    IF DHas(d, key) THEN [d EXCEPT ![DIdx(d, key)].v = val]
    ELSE Append(d, [k |-> key, v |-> val])
DDel(d, key) == SelectSeq(d, LAMBDA e : e.k # key)
DKeys(d) == [i \in 1..Len(d) |-> d[i].k]
DKeySet(d) == {d[i].k : i \in 1..Len(d)}

(***************************************************************************)
(* url_matches_pattern (src/pervasive.py:89-96)                            *)
(***************************************************************************)
\* re.fullmatch of the escaped pattern with each "*" turned into ".*"
RECURSIVE GlobFrom(_, _, _, _)
GlobFrom(url, pattern, i, j) ==
    IF i > Len(pattern) THEN j > Len(url)
    ELSE IF pattern[i] = "*"
         THEN \E k \in j..(Len(url) + 1) : GlobFrom(url, pattern, i + 1, k)
         ELSE /\ j <= Len(url)
              /\ url[j] = pattern[i]
              /\ GlobFrom(url, pattern, i + 1, j + 1)

url_matches_pattern(url, pattern) ==
    IF ~InSeq("*", pattern) THEN url = pattern
    ELSE GlobFrom(url, pattern, 1, 1)

(***************************************************************************)
(* difflib.SequenceMatcher(None, a, b) for strings shorter than 200        *)
(* characters (no junk, no popularity heuristic).  Blocks are <<i, j, n>>  *)
(* with 0-based i into a and j into b.                                     *)
(***************************************************************************)
\* length of the common run of a[i:ahi] and b[j:bhi]
RECURSIVE RunLen(_, _, _, _, _, _)
RunLen(a, b, i, j, ahi, bhi) ==
    IF i < ahi /\ j < bhi /\ a[i + 1] = b[j + 1]
    THEN 1 + RunLen(a, b, i + 1, j + 1, ahi, bhi)
    ELSE 0

\* find_longest_match: the longest block, of those the one starting
\* earliest in a, of those the one starting earliest in b
find_longest_match(a, b, alo, ahi, blo, bhi) ==
    LET starts == {p \in (alo..(ahi - 1)) \X (blo..(bhi - 1)) :
                       a[p[1] + 1] = b[p[2] + 1]}
        run == [p \in starts |-> RunLen(a, b, p[1], p[2], ahi, bhi)]
    IN  IF starts = {} THEN <<alo, blo, 0>>
        ELSE LET best == CHOOSE p \in starts :
                             \A q \in starts :
                                 \/ run[p] > run[q]
                                 \/ /\ run[p] = run[q]
                                    /\ \/ p[1] < q[1]
                                       \/ p[1] = q[1] /\ p[2] <= q[2]
             IN  <<best[1], best[2], run[best]>>

\* the recursion of get_matching_blocks, blocks in increasing order
RECURSIVE MatchingBlocksIn(_, _, _, _, _, _)
MatchingBlocksIn(a, b, alo, ahi, blo, bhi) ==
    LET m == find_longest_match(a, b, alo, ahi, blo, bhi)
        i == m[1]
        j == m[2]
        k == m[3]
    IN  IF k = 0 THEN <<>>
        ELSE (IF alo < i /\ blo < j
              THEN MatchingBlocksIn(a, b, alo, i, blo, j) ELSE <<>>)
             \o <<m>> \o
             (IF i + k < ahi /\ j + k < bhi
              THEN MatchingBlocksIn(a, b, i + k, ahi, j + k, bhi) ELSE <<>>)

\* adjacent blocks are merged
RECURSIVE CollapseBlocks(_, _)
CollapseBlocks(acc, rest) ==
    IF rest = <<>> THEN acc
    ELSE IF acc # <<>>
            /\ acc[Len(acc)][1] + acc[Len(acc)][3] = rest[1][1]
            /\ acc[Len(acc)][2] + acc[Len(acc)][3] = rest[1][2]
         THEN CollapseBlocks(
                  [acc EXCEPT ![Len(acc)][3] = acc[Len(acc)][3] + rest[1][3]],
                  Tail(rest))
         ELSE CollapseBlocks(Append(acc, rest[1]), Tail(rest))

\* get_matching_blocks(): ends with the dummy block <<len(a), len(b), 0>>
get_matching_blocks(a, b) ==
    Append(CollapseBlocks(<<>>, MatchingBlocksIn(a, b, 0, Len(a), 0, Len(b))),
           <<Len(a), Len(b), 0>>)

RECURSIVE SumSizes(_)
SumSizes(blocks) ==
    IF blocks = <<>> THEN 0 ELSE blocks[1][3] + SumSizes(Tail(blocks))

\* ratio() >= MIN_FILENAME_RATIO, where ratio() = 2.0 * matches / length and
\* 1.0 when both strings are empty
RatioAtLeastMin(a, b, blocks) ==
    LET length == Len(a) + Len(b)
    IN  IF length = 0 THEN TRUE
        ELSE 2 * SumSizes(blocks) * MIN_FILENAME_RATIO_DEN
                >= MIN_FILENAME_RATIO_NUM * length
(***************************************************************************)
(* create_filename_pattern (src/pervasive.py:271-332)                      *)
(***************************************************************************)
\* the (start, end) spans in a of the blocks with size > 0
RECURSIVE BlockSpans(_)
BlockSpans(matches) ==
    IF matches = <<>> THEN <<>>
    ELSE (IF matches[1][3] > 0
          THEN << <<matches[1][1], matches[1][1] + matches[1][3]>> >>
          ELSE <<>>) \o BlockSpans(Tail(matches))

\* the inner loop "for cmatch in common" for one match span
RECURSIVE IntersectOne(_, _)
IntersectOne(span, common) ==
    IF common = <<>> THEN <<>>
    ELSE LET s == Max(span[1], common[1][1])
             e == Min(span[2], common[1][2])
         IN  (IF s < e THEN << <<s, e>> >> ELSE <<>>)
                \o IntersectOne(span, Tail(common))

\* the loop "for match in matches" of the intersection branch
RECURSIVE IntersectAll(_, _)
IntersectAll(spans, common) ==
    IF spans = <<>> THEN <<>>
    ELSE IntersectOne(spans[1], common) \o IntersectAll(Tail(spans), common)

\* first and last as the loops leave them: the least start and the greatest
\* end of the spans appended, -1 standing for None
FirstOf(spans) ==
    IF spans = <<>> THEN -1
    ELSE CHOOSE x \in {spans[i][1] : i \in 1..Len(spans)} :
             \A i \in 1..Len(spans) : x <= spans[i][1]
LastOf(spans) ==
    IF spans = <<>> THEN -1
    ELSE CHOOSE x \in {spans[i][2] : i \in 1..Len(spans)} :
             \A i \in 1..Len(spans) : x >= spans[i][2]

\* the intersection branch (lines 295-312)
FoldSpans2(intersect) ==
    [isNone |-> FALSE, common |-> intersect,
     first |-> FirstOf(intersect), last |-> LastOf(intersect)]

\* one candidate whose filename differs: st = [isNone, common, first, last]
FoldSpans(st, spans) ==
    IF st.isNone
    THEN [isNone |-> FALSE, common |-> spans,
          first |-> FirstOf(spans), last |-> LastOf(spans)]
    ELSE FoldSpans2(IntersectAll(spans, st.common))

\* the loop over the candidates
RECURSIVE FilenameCommon(_, _, _)
FilenameCommon(file, candidates, st) ==
    IF candidates = <<>> THEN st
    ELSE IF LastPart(candidates[1]) = file
    THEN FilenameCommon(file, Tail(candidates), st)
    ELSE FilenameCommon(file, Tail(candidates),
             FoldSpans(st, BlockSpans(get_matching_blocks(file,
                                          LastPart(candidates[1])))))

\* the loop "for chunk in common" that builds the pattern
RECURSIVE FilenameChunks(_, _, _, _)
FilenameChunks(file, common, pattern, is_first) ==
    IF common = <<>> THEN pattern
    ELSE LET p1 == IF ~is_first /\ (pattern = <<>> \/ pattern[Len(pattern)] # "*")
                   THEN Append(pattern, "*") ELSE pattern
             part == Slice(file, common[1][1], common[1][2])
             p2 == IF Len(part) > 1 THEN p1 \o part ELSE p1
         IN  FilenameChunks(file, Tail(common), p2, FALSE)

\* lines 313-332 on the state the loop over the candidates leaves
FilenameResult(file, st) ==
    IF st.isNone THEN None
    ELSE IF st.common = <<>> THEN <<"*">>
    ELSE FilenameChunks(file, st.common,
                        IF st.first # 0 THEN <<"*">> ELSE <<>>, TRUE)
            \o (IF st.last # Len(file) THEN <<"*">> ELSE <<>>)

create_filename_pattern(path, candidates) ==
    FilenameResult(LastPart(path),
        FilenameCommon(LastPart(path), candidates,
            [isNone |-> TRUE, common |-> <<>>, first |-> -1, last |-> -1]))

(***************************************************************************)
(* find_path_pattern (src/pervasive.py:334-373)                            *)
(***************************************************************************)
RECURSIVE SortedSeqOf(_)
SortedSeqOf(S) ==
    IF S = {} THEN <<>>
    ELSE LET m == CHOOSE x \in S : \A y \in S : x <= y
         IN  <<m>> \o SortedSeqOf(S \ {m})

\* differences after differences.sort(): the 0-based segment indexes at
\* which some candidate differs from the path
PathDifferences(path_parts, candidates) ==
    SortedSeqOf({index \in 0..(Len(path_parts) - 1) :
        \E c \in 1..Len(candidates) :
            path_parts[index + 1] # StrSplit(candidates[c])[index + 1]})

\* for diff in diffs: pattern = pattern.replace(f"/{path_parts[diff]}/", "/*/")
RECURSIVE WildcardSegments(_, _, _)
WildcardSegments(pattern, path_parts, diffs) ==
    IF diffs = <<>> THEN pattern
    ELSE WildcardSegments(
             StrReplace(pattern, <<"/">> \o path_parts[diffs[1] + 1] \o <<"/">>,
                        <<"/", "*", "/">>),
             path_parts, Tail(diffs))

\* lines 367-372: the filename pattern put in place of the filename
FilenameBranch(path, path_parts, differences, filename_pattern) ==
    IF filename_pattern # None
    THEN StrReplace(
             WildcardSegments(path, path_parts,
                              SubSeq(differences, 1, Len(differences) - 1)),
             <<"/">> \o path_parts[differences[Len(differences)] + 1],
             <<"/">> \o filename_pattern)
    ELSE None

\* mutant: ">= MIN_STABLE_PATH" in place of ">"
PatternForAtLeast(path, path_parts, differences, candidates) ==
    IF /\ Len(path_parts) - Len(differences) >= MIN_STABLE_PATH
       /\ differences[Len(differences)] # Len(path_parts) - 1
    THEN WildcardSegments(path, path_parts, differences)
    ELSE IF Len(differences) = 1 /\ differences[1] # Len(path_parts) - 1
    THEN StrReplace(path, <<"/">> \o path_parts[differences[1] + 1] \o <<"/">>,
                    <<"/", "*", "/">>)
    ELSE IF /\ differences[Len(differences)] = Len(path_parts) - 1
            /\ \/ Len(differences) = 2
               \/ Len(path_parts) - Len(differences) >= MIN_STABLE_PATH
    THEN FilenameBranch(path, path_parts, differences,
                        create_filename_pattern(path, candidates))
    ELSE None

\* lines 353-373, once differences is sorted and not empty
PatternFor(path, path_parts, differences, candidates) ==
    IF /\ Len(path_parts) - Len(differences) > MIN_STABLE_PATH
       /\ differences[Len(differences)] # Len(path_parts) - 1
    THEN WildcardSegments(path, path_parts, differences)
    ELSE IF Len(differences) = 1 /\ differences[1] # Len(path_parts) - 1
    THEN StrReplace(path, <<"/">> \o path_parts[differences[1] + 1] \o <<"/">>,
                    <<"/", "*", "/">>)
    ELSE IF /\ differences[Len(differences)] = Len(path_parts) - 1
            /\ \/ Len(differences) = 2
               \/ Len(path_parts) - Len(differences) > MIN_STABLE_PATH
    THEN FilenameBranch(path, path_parts, differences,
                        create_filename_pattern(path, candidates))
    ELSE None

\* lines 339-351
DifferencesThen(path, path_parts, differences, candidates) ==
    IF differences = <<>> THEN None
    ELSE PatternFor(path, path_parts, differences, candidates)

SegmentsThen(path, path_parts, candidates) ==
    IF \E c \in 1..Len(candidates) :
           Len(StrSplit(candidates[c])) # Len(path_parts)
    THEN None
    ELSE DifferencesThen(path, path_parts,
                         PathDifferences(path_parts, candidates), candidates)

find_path_pattern(origin, path, candidates) ==
    SegmentsThen(path, StrSplit(path), candidates)

(***************************************************************************)
(* State of a Collect object during run() and the month files it reads     *)
(***************************************************************************)
VARIABLES
    feed,           \* data/<date>.json of each tracked month: a list of records
    pc,             \* the call of aggregate_urls that runs next
    loaded,         \* how many dates "for date in self.dates" has loaded
    origins,        \* self.origins: origin -> path -> date -> hash -> {count, size}
    destinations,   \* self.destinations: url -> dest
    patterns,       \* self.patterns
    scan,           \* position of the seed loops of find_patterns
    patterns_file,  \* patterns.txt as write_patterns leaves it
    log,            \* history: one entry per pattern that was validated
    removed         \* history: the <<origin, path>> deleted from self.origins

vars == <<feed, pc, loaded, origins, destinations, patterns, scan,
          patterns_file, log, removed>>

\* self.dates holds the tracked months, the current one first; a month is
\* named by its position in that list (src/pervasive.py:70-83)
NumMonths == 2
dates == [i \in 1..NumMonths |-> i]
current_date == dates[1]

(***************************************************************************)
(* urlparse(url): '{uri.scheme}://{uri.netloc}' and uri.path, for a url    *)
(* scheme://netloc/path?query#fragment: the netloc ends at the first of    *)
(* "/", "?", "#", the path at the first of "?", "#"                        *)
(***************************************************************************)
\* the least index >= from of a character of the set, Len(s) without one
FindAny(s, chars, from) ==
    LET hits == {i \in from..(Len(s) - 1) : s[i + 1] \in chars}
    IN  IF hits = {} THEN Len(s) ELSE CHOOSE i \in hits : \A j \in hits : i <= j

UrlPathStart(url) ==
    FindAny(url, {"/", "?", "#"}, StrFind(url, <<":", "/", "/">>, 0) + 3)
UrlOrigin(url) == Slice(url, 0, UrlPathStart(url))
UrlPath(url) == Slice(url, UrlPathStart(url), FindAny(url, {"?", "#"}, UrlPathStart(url)))

(***************************************************************************)
(* load_date (src/pervasive.py:166-191)                                    *)
(***************************************************************************)
\* mutant: "= num" in place of "+= num", the count of a later record of the
\* same path, date and hash replaces the count so far
AddCountOverwrite(hist, date, hash, num, size) ==
    IF ~DHas(hist, date)
    THEN DPut(hist, date, <<[k |-> hash, v |-> [count |-> num, size |-> size]]>>)
    ELSE IF ~DHas(DGet(hist, date), hash)
    THEN DPut(hist, date,
              DPut(DGet(hist, date), hash, [count |-> num, size |-> size]))
    ELSE DPut(hist, date,
              DPut(DGet(hist, date), hash,
                   [count |-> num,
                    size |-> DGet(DGet(hist, date), hash).size]))

\* lines 187-191 on the history of the path: the date and the hash are
\* created when missing, then the count is added to
AddCount(hist, date, hash, num, size) ==
    IF ~DHas(hist, date)
    THEN DPut(hist, date, <<[k |-> hash, v |-> [count |-> 0 + num, size |-> size]]>>)
    ELSE IF ~DHas(DGet(hist, date), hash)
    THEN DPut(hist, date,
              DPut(DGet(hist, date), hash, [count |-> 0 + num, size |-> size]))
    ELSE DPut(hist, date,
              DPut(DGet(hist, date), hash,
                   [count |-> DGet(DGet(hist, date), hash).count + num,
                    size |-> DGet(DGet(hist, date), hash).size]))

\* lines 183-191 for a record of a known origin
AddEntry(st, origin_str, origin, path, entry, date) ==
    IF ~DHas(origin, path)
    THEN [origins |-> DPut(st.origins, origin_str,
                        DPut(origin, path,
                             AddCount(<<>>, date, entry.body_hash, entry.num,
                                      entry.size))),
          destinations |-> (entry.url :> entry.dest) @@ st.destinations]
    ELSE [origins |-> DPut(st.origins, origin_str,
                        DPut(origin, path,
                             AddCount(DGet(origin, path), date, entry.body_hash,
                                      entry.num, entry.size))),
          destinations |-> st.destinations]

\* mutant: a new origin is created whatever the date of the record
LoadEntryAnyDate(st, entry, date) ==
    IF DHas(st.origins, UrlOrigin(entry.url))
    THEN AddEntry(st, UrlOrigin(entry.url), DGet(st.origins, UrlOrigin(entry.url)),
                  UrlPath(entry.url), entry, date)
    ELSE AddEntry(st, UrlOrigin(entry.url), <<>>, UrlPath(entry.url), entry, date)

\* the body of "for entry in raw" on st = [origins, destinations]
LoadEntry(st, entry, date) ==
    IF DHas(st.origins, UrlOrigin(entry.url))
    THEN AddEntry(st, UrlOrigin(entry.url), DGet(st.origins, UrlOrigin(entry.url)),
                  UrlPath(entry.url), entry, date)
    ELSE IF date = current_date
    THEN AddEntry(st, UrlOrigin(entry.url), <<>>, UrlPath(entry.url), entry, date)
    ELSE st

RECURSIVE LoadEntries(_, _, _)
LoadEntries(st, raw, date) ==
    IF raw = <<>> THEN st
    ELSE LoadEntries(LoadEntry(st, raw[1], date), Tail(raw), date)

load_date(st, date) == LoadEntries(st, feed[date], date)

(***************************************************************************)
(* Helpers on self.origins                                                 *)
(***************************************************************************)
\* every <<origin, path>> of the index, in iteration order
RECURSIVE AllPaths(_)
AllPaths(os) ==
    IF os = <<>> THEN <<>>
    ELSE [i \in 1..Len(os[1].v) |-> <<os[1].k, os[1].v[i].k>>] \o AllPaths(Tail(os))

PathSet(os) == {AllPaths(os)[i] : i \in 1..Len(AllPaths(os))}

\* total_count += ...[hash]['count'] for hash in ...[date]
RECURSIVE SumCounts(_)
SumCounts(day) ==
    IF day = <<>> THEN 0 ELSE day[1].v.count + SumCounts(Tail(day))

\* the distinct hashes of a path over all of its dates
HashSet(hist) ==
    UNION {DKeySet(hist[i].v) : i \in 1..Len(hist)}

OriginsDel(os, origin, path) == DPut(os, origin, DDel(DGet(os, origin), path))

\* what a date contributes to a path: every hash of that date, 0 without it
DateTotal(hist, date) ==
    IF DHas(hist, date) THEN SumCounts(DGet(hist, date)) ELSE 0

\* history: per month, the occurrences of all the paths of working set o
\* that the pattern matches
RECURSIVE MatchTotal(_, _, _)
MatchTotal(o, pattern, date) ==
    IF o = <<>> THEN 0
    ELSE (IF url_matches_pattern(o[1].k, pattern)
          THEN DateTotal(o[1].v, date) ELSE 0)
         + MatchTotal(Tail(o), pattern, date)

MatchTotals(o, pattern) == [d \in 1..NumMonths |-> MatchTotal(o, pattern, dates[d])]

(***************************************************************************)
(* find_pervasive_urls (src/pervasive.py:193-214)                          *)
(***************************************************************************)
\* mutant: "total_count <= PERVASIVE_COUNT" in place of "<"
IsPervasiveUrlStrict(hist) ==
    /\ Len(hist) = Len(dates)
    /\ \A d \in 1..Len(dates) : ~(DateTotal(hist, dates[d]) <= PERVASIVE_COUNT)

\* mutant: the length test is dropped and the threshold is tested inside
\* "if date in self.origins[origin][path]", so that a month without data passes
IsPervasiveUrlPresentMonths(hist) ==
    \A d \in 1..Len(dates) :
        DHas(hist, dates[d]) => ~(DateTotal(hist, dates[d]) < PERVASIVE_COUNT)

\* is_pervasive after "for date in self.dates", under the length test
IsPervasiveUrl(hist) ==
    /\ Len(hist) = Len(dates)
    /\ \A d \in 1..Len(dates) : ~(DateTotal(hist, dates[d]) < PERVASIVE_COUNT)

\* the body of "for path in list(...)" on st = [origins, patterns, log, removed]
PervasiveStep(st, origin, path) ==
    LET o == DGet(st.origins, origin)
        url == origin \o path
    IN  IF IsPervasiveUrl(DGet(o, path))
        THEN [origins |-> OriginsDel(st.origins, origin, path),
              patterns |-> IF ~InSeq(url, st.patterns)
                           THEN Append(st.patterns, url) ELSE st.patterns,
              log |-> Append(st.log,
                        [kind |-> "fixed", origin |-> origin, seed |-> path,
                         candidates |-> <<>>, raw |-> path, pattern |-> path,
                         matched |-> {path}, sums |-> MatchTotals(o, path),
                         accepted |-> TRUE, gone |-> st.removed]),
              removed |-> st.removed \cup {<<origin, path>>}]
        ELSE st

RECURSIVE PervasiveLoop(_, _)
PervasiveLoop(st, todo) ==
    IF todo = <<>> THEN st
    ELSE PervasiveLoop(PervasiveStep(st, todo[1][1], todo[1][2]), Tail(todo))

find_pervasive_urls(st) == PervasiveLoop(st, AllPaths(st.origins))

(***************************************************************************)
(* remove_long_urls, remove_static_urls, remove_unversioned_urls,          *)
(* remove_blocked_urls (src/pervasive.py:216-262) and is_blocked (384-390) *)
(***************************************************************************)
IsLongUrl(origin, path, hist) == Len(origin \o path) > MAX_URL_LENGTH

\* mutant: "len(...) > len(self.dates)" in place of "=="
IsStaticUrlOffByOne(origin, path, hist) ==
    Len(hist) > Len(dates) /\ Cardinality(HashSet(hist)) = 1

IsStaticUrl(origin, path, hist) ==
    Len(hist) = Len(dates) /\ Cardinality(HashSet(hist)) = 1

IsUnversionedUrl(origin, path, hist) == Cardinality(HashSet(hist)) > 1

is_blocked(path) ==
    LET file == LastPart(path)
    IN  \E b \in 1..Len(BLOCKLIST) : StrContains(file, BLOCKLIST[b])

IsBlockedUrl(origin, path, hist) == is_blocked(LastPart(path))

\* del self.origins[origin][path] for every path the test selects
remove_long_urls(os) ==
    [i \in 1..Len(os) |->
        [k |-> os[i].k,
         v |-> SelectSeq(os[i].v, LAMBDA e : ~IsLongUrl(os[i].k, e.k, e.v))]]

\* del self.origins[origin][path] for every path the test selects
remove_static_urls(os) ==
    [i \in 1..Len(os) |->
        [k |-> os[i].k,
         v |-> SelectSeq(os[i].v, LAMBDA e : ~IsStaticUrl(os[i].k, e.k, e.v))]]

\* del self.origins[origin][path] for every path the test selects
remove_unversioned_urls(os) ==
    [i \in 1..Len(os) |->
        [k |-> os[i].k,
         v |-> SelectSeq(os[i].v, LAMBDA e : ~IsUnversionedUrl(os[i].k, e.k, e.v))]]

\* del self.origins[origin][path] for every path the test selects
remove_blocked_urls(os) ==
    [i \in 1..Len(os) |->
        [k |-> os[i].k,
         v |-> SelectSeq(os[i].v, LAMBDA e : ~IsBlockedUrl(os[i].k, e.k, e.v))]]

(***************************************************************************)
(* matches_existing_pattern (src/pervasive.py:375-382)                     *)
(***************************************************************************)
matches_existing_pattern(url, pats) ==
    \/ InSeq(url, pats)
    \/ \E i \in 1..Len(pats) : url_matches_pattern(url, pats[i])

(***************************************************************************)
(* find_patterns (src/pervasive.py:392-476), one seed path per step        *)
(***************************************************************************)
\* for ignore in FILENAME_IGNORE: filepart = filepart.replace(ignore, "")
RECURSIVE StripIgnored(_, _)
StripIgnored(filepart, ignores) ==
    IF ignores = <<>> THEN filepart
    ELSE StripIgnored(StrReplace(filepart, ignores[1], <<>>), Tail(ignores))

FilePart(path) == StripIgnored(LastPart(path), FILENAME_IGNORE)

Abs(x) == IF x < 0 THEN -x ELSE x

\* the filename tests of the candidate condition (lines 420-422, 427-429)
SimilarFilename(filepart, cfilepart) ==
    LET blocks == get_matching_blocks(filepart, cfilepart)
    IN  /\ RatioAtLeastMin(filepart, cfilepart, blocks)
        /\ Len(blocks) <= MAX_FILENAME_MATCHING_BLOCKS
        /\ Abs(Len(filepart) - Len(cfilepart)) <= MAX_FILENAME_LENGTH_DIFFERENCE

\* size of the first hash of the first date of a path (lines 430-432)
FirstSize(hist) == hist[1].v[1].v.size

\* mutant: the differences are not multiplied by 100
SizeWithinNotScaled(size, st, target_size) ==
    LET size_delta == IF size < st.min THEN (st.min - size)
                      ELSE IF size > st.max THEN (size - st.max)
                      ELSE 0
    IN  size_delta <= SIZE_MATCH_PERCENT * target_size

\* size_delta / target_size <= SIZE_MATCH_PERCENT, target_size > 0 (line 61)
SizeWithin(size, st, target_size) ==
    LET size_delta == IF size < st.min THEN (st.min - size) * 100
                      ELSE IF size > st.max THEN (size - st.max) * 100
                      ELSE 0
    IN  size_delta <= SIZE_MATCH_PERCENT * target_size

\* the loop "for p in list(o.keys())" on st = [candidates, min, max]
RECURSIVE CandidateLoop(_, _, _, _, _, _, _)
CandidateLoop(st, keys, o, origin, path, dest, target_size) ==
    IF keys = <<>> THEN st
    ELSE
    LET p == keys[1]
        curl == origin \o p
        size == FirstSize(DGet(o, p))
        next ==
            IF /\ p # path
               /\ ~InSeq(p, st.candidates)
               /\ curl \in DOMAIN destinations
               /\ destinations[curl] = dest
               /\ Len(StrSplit(p)) = Len(StrSplit(path))
               /\ SimilarFilename(FilePart(path), FilePart(p))
               /\ SizeWithin(size, st, target_size)
            THEN [candidates |-> Append(st.candidates, p),
                  min |-> Min(st.min, size), max |-> Max(st.max, size)]
            ELSE st
    IN  CandidateLoop(next, Tail(keys), o, origin, path, dest, target_size)

FindCandidates(o, origin, path) ==
    LET target_size == DGet(DGet(o, path), current_date)[1].v.size
    IN  CandidateLoop([candidates |-> <<>>, min |-> target_size,
                       max |-> target_size],
                      DKeys(o), o, origin, path, destinations[origin \o path],
                      target_size).candidates

\* lines 445-448 on the pattern find_path_pattern returned
RECURSIVE ReplaceEach(_, _)
ReplaceEach(pattern, subs) ==
    IF subs = <<>> THEN pattern
    ELSE ReplaceEach(StrReplace(pattern, subs[1], <<"*">>), Tail(subs))

RECURSIVE CollapseWildcards(_)
CollapseWildcards(pattern) ==
    IF StrContains(pattern, <<"/", "*", "/", "*", "/">>)
    THEN CollapseWildcards(StrReplace(pattern, <<"/", "*", "/", "*", "/">>,
                                      <<"/", "*", "/">>))
    ELSE pattern

FinalPattern(raw) == CollapseWildcards(ReplaceEach(raw, WILDCARD_REPLACE))

\* total_count of one date (lines 454-460): the first hash of each matching path
RECURSIVE ValidationTotal(_, _, _)
ValidationTotal(o, pattern, date) ==
    IF o = <<>> THEN 0
    ELSE (IF url_matches_pattern(o[1].k, pattern) /\ DHas(o[1].v, date)
          THEN DGet(o[1].v, date)[1].v.count ELSE 0)
         + ValidationTotal(Tail(o), pattern, date)

\* mutant: is_pervasive is assigned anew for each date, so the last date decides
IsPervasivePatternLastDate(o, pattern) ==
    ~(ValidationTotal(o, pattern, dates[Len(dates)]) < PERVASIVE_COUNT)

\* is_pervasive after the loop over self.dates
IsPervasivePattern(o, pattern) ==
    \A d \in 1..Len(dates) :
        ~(ValidationTotal(o, pattern, dates[d]) < PERVASIVE_COUNT)

\* matched_urls, as a set (lines 455-457)
MatchedUrls(o, pattern) ==
    IF Len(dates) = 0 THEN {}
    ELSE {o[i].k : i \in {j \in 1..Len(o) : url_matches_pattern(o[j].k, pattern)}}

\* mutant: the clean-up loop is missing
CleanUpMissing(o, matched, is_pervasive) == o

\* mutant: the clean-up loop is inside "if is_pervasive:"
CleanUpWhenAccepted(o, matched, is_pervasive) ==
    IF is_pervasive THEN SelectSeq(o, LAMBDA e : e.k \notin matched) ELSE o

\* "for path2 in matched_urls: if path2 in o: del o[path2]"
CleanUp(o, matched, is_pervasive) == SelectSeq(o, LAMBDA e : e.k \notin matched)

\* the guard of line 404
IsSeed(o, origin, path) ==
    /\ (origin \o path) \in DOMAIN destinations
    /\ DHas(o, path)
    /\ DHas(DGet(o, path), current_date)
    /\ ~matches_existing_pattern(origin \o path, patterns)

\* history: the log entry of a seed with candidates
LogEntry(kind, origin, path, candidates, raw, pattern, matched, sums, accepted) ==
    [kind |-> kind, origin |-> origin, seed |-> path, candidates |-> candidates,
     raw |-> raw, pattern |-> pattern, matched |-> matched, sums |-> sums,
     accepted |-> accepted, gone |-> removed]

\* lines 464-475: the pattern is appended when pervasive, the matched paths
\* are deleted
Validated(o, origin, path, candidates, raw, pattern, matched_urls, is_pervasive) ==
    [origins |-> DPut(origins, origin, CleanUp(o, matched_urls, is_pervasive)),
     patterns |-> IF is_pervasive THEN Append(patterns, origin \o pattern)
                  ELSE patterns,
     log |-> Append(log, LogEntry("pattern", origin, path, candidates, raw,
                                  pattern, matched_urls, MatchTotals(o, pattern),
                                  is_pervasive))]

\* lines 449-463
Validate(o, origin, path, candidates, raw, pattern) ==
    Validated(o, origin, path, candidates, raw, pattern,
              MatchedUrls(o, pattern), IsPervasivePattern(o, pattern))

\* lines 444-448: "if pattern:" holds for a str that is not empty
Synthesized(o, origin, path, candidates, raw) ==
    IF raw = None \/ raw = <<>>
    THEN [origins |-> origins, patterns |-> patterns,
          log |-> Append(log, LogEntry("none", origin, path, candidates, raw, None,
                                       {}, [d \in 1..NumMonths |-> 0], FALSE))]
    ELSE Validate(o, origin, path, candidates, raw, FinalPattern(raw))

\* lines 442-443
WithCandidates(o, origin, path, candidates) ==
    IF candidates = <<>>
    THEN [origins |-> origins, patterns |-> patterns, log |-> log]
    ELSE Synthesized(o, origin, path, candidates,
                     find_path_pattern(origin, path, candidates))

\* mutant: o is a defaultdict(dict) and line 404 reads o[path] without
\* "path in o", which puts a path deleted since the key list was taken back
\* into o with an empty history
SeedBodyDefaultDict(o, origin, path) ==
    IF ~DHas(o, path)
    THEN [origins |-> DPut(origins, origin, DPut(o, path, <<>>)),
          patterns |-> patterns, log |-> log]
    ELSE IF ~IsSeed(o, origin, path)
    THEN [origins |-> origins, patterns |-> patterns, log |-> log]
    ELSE WithCandidates(o, origin, path, FindCandidates(o, origin, path))

\* the body of "for path in list(o.keys())": [origins, patterns, log]
SeedBody(o, origin, path) ==
    IF ~IsSeed(o, origin, path)
    THEN [origins |-> origins, patterns |-> patterns, log |-> log]
    ELSE WithCandidates(o, origin, path, FindCandidates(o, origin, path))

SeedStep(origin, path) == SeedBody(DGet(origins, origin), origin, path)

(***************************************************************************)
(* remove_duplicate_patterns (src/pervasive.py:500-509)                    *)
(***************************************************************************)
\* mutant: the arguments of url_matches_pattern are swapped
RECURSIVE DedupInnerSwapped(_, _, _)
DedupInnerSwapped(st, pattern1, inner) ==
    IF inner = <<>> \/ st.error THEN st
    ELSE
    LET pattern2 == inner[1]
        shorter == IF Len(pattern1) < Len(pattern2) THEN pattern1 ELSE pattern2
        longer == IF Len(pattern1) > Len(pattern2) THEN pattern1 ELSE pattern2
        next ==
            IF /\ pattern1 # pattern2
               /\ Len(pattern1) # Len(pattern2)
               /\ url_matches_pattern(shorter, longer)
            THEN IF InSeq(longer, st.patterns)
                 THEN [st EXCEPT !.patterns = ListRemove(st.patterns, longer)]
                 ELSE [st EXCEPT !.error = TRUE]
            ELSE st
    IN  DedupInnerSwapped(next, pattern1, Tail(inner))

\* the inner loop on st = [patterns, error]; list.remove raises ValueError
\* when the longer pattern is no longer in self.patterns
RECURSIVE DedupInner(_, _, _)
DedupInner(st, pattern1, inner) ==
    IF inner = <<>> \/ st.error THEN st
    ELSE
    LET pattern2 == inner[1]
        shorter == IF Len(pattern1) < Len(pattern2) THEN pattern1 ELSE pattern2
        longer == IF Len(pattern1) > Len(pattern2) THEN pattern1 ELSE pattern2
        next ==
            IF /\ pattern1 # pattern2
               /\ Len(pattern1) # Len(pattern2)
               /\ url_matches_pattern(longer, shorter)
            THEN IF InSeq(longer, st.patterns)
                 THEN [st EXCEPT !.patterns = ListRemove(st.patterns, longer)]
                 ELSE [st EXCEPT !.error = TRUE]
            ELSE st
    IN  DedupInner(next, pattern1, Tail(inner))

\* the outer loop over list(self.patterns); the inner list is taken anew
RECURSIVE DedupOuter(_, _)
DedupOuter(st, outer) ==
    IF outer = <<>> \/ st.error THEN st
    ELSE DedupOuter(DedupInner(st, outer[1], st.patterns), Tail(outer))

remove_duplicate_patterns(pats) ==
    DedupOuter([patterns |-> pats, error |-> FALSE], pats)
(***************************************************************************)
(* The month files.  A record is one row of the query result: url,         *)
(* body_hash, num, dest, size.  An observation places a record in a month. *)
(***************************************************************************)
MaxRecords == 4

Rec(url, hash, num, size, dest) ==
    [url |-> url, body_hash |-> hash, num |-> num, size |-> size, dest |-> dest]

\* one observation of the record in each of the given months
InMonths(months, rec) == [i \in 1..Len(months) |-> [m |-> months[i], rec |-> rec]]

AllMonths == [i \in 1..NumMonths |-> i]
OlderMonths == [i \in 1..(NumMonths - 1) |-> i + 1]

\* the file of a month: its observations, in order
RECURSIVE MonthFile(_, _)
MonthFile(obs, m) ==
    IF obs = <<>> THEN <<>>
    ELSE (IF obs[1].m = m THEN <<obs[1].rec>> ELSE <<>>) \o MonthFile(Tail(obs), m)

FeedOf(obs) == [m \in 1..NumMonths |-> MonthFile(obs, m)]

\* the observations at the chosen positions, in order
Pick(obs, S) == SelectSeq([i \in 1..Len(obs) |-> IF i \in S THEN obs[i] ELSE [m |-> 0]],
                          LAMBDA e : e.m # 0)

SmallSubsets(n) == {S \in SUBSET (1..n) : Cardinality(S) <= MaxRecords}

OriginA == <<"s", ":", "/", "/", "a">>
OriginB == <<"s", ":", "/", "/", "b">>
OriginCdn == <<"h", "t", "t", "p", "s", ":", "/", "/", "c", "d", "n", ".", "e", "x", "a", "m", "p", "l", "e">>

\* a path of 197 characters: with OriginA a url of 202 characters
LongPath == <<"/", "l", "/">> \o [i \in 1..194 |-> "a"]

\* versioned directories of one script; one url also at a lower count
PoolSegments ==
    InMonths(AllMonths, Rec(OriginA \o <<"/", "1", "/", "x">>, "h1", PERVASIVE_COUNT, 2000, "script"))
    \o InMonths(AllMonths, Rec(OriginA \o <<"/", "2", "/", "x">>, "h2", PERVASIVE_COUNT, 2040, "script"))
    \o InMonths(AllMonths, Rec(OriginA \o <<"/", "3", "0", "/", "x">>, "h3", PERVASIVE_COUNT, 2000, "script"))
    \o InMonths(AllMonths, Rec(OriginA \o <<"/", "3", "0", "/", "x">>, "h4", PERVASIVE_COUNT - 40000, 2000, "script"))
    \o InMonths(AllMonths, Rec(OriginA \o <<"/", "2", "/", "x">>, "h2", PERVASIVE_COUNT - 40000, 2040, "script"))

\* one url under two hashes, each below the threshold, and a sibling
PoolHashes ==
    InMonths(AllMonths, Rec(OriginA \o <<"/", "3", "0", "/", "x">>, "h3", PERVASIVE_COUNT - 40000, 2000, "script"))
    \o InMonths(AllMonths, Rec(OriginA \o <<"/", "3", "0", "/", "x">>, "h4", PERVASIVE_COUNT - 40000, 2000, "script"))
    \o InMonths(AllMonths, Rec(OriginA \o <<"/", "1", "/", "x">>, "h1", PERVASIVE_COUNT - 40000, 2000, "script"))

\* one-character filenames next to directory urls
PoolShortNames ==
    InMonths(AllMonths, Rec(OriginA \o <<"/", "a", "/", "c">>, "h1", PERVASIVE_COUNT, 2000, "script"))
    \o InMonths(AllMonths, Rec(OriginA \o <<"/", "b", "/", "b", "c">>, "h2", PERVASIVE_COUNT, 2000, "script"))
    \o InMonths(AllMonths, Rec(OriginA \o <<"/", "p", "/">>, "h3", PERVASIVE_COUNT, 2000, "script"))
    \o InMonths(AllMonths, Rec(OriginA \o <<"/", "q", "/">>, "h4", PERVASIVE_COUNT, 2000, "script"))

\* versioned filenames, one of them in a second directory
PoolFilenames ==
    InMonths(AllMonths, Rec(OriginA \o <<"/", "d", "/", "e", "/", "a", "b", "1">>, "h1", PERVASIVE_COUNT, 2000, "style"))
    \o InMonths(AllMonths, Rec(OriginA \o <<"/", "d", "/", "e", "/", "a", "b", "2">>, "h2", PERVASIVE_COUNT, 2000, "style"))
    \o InMonths(AllMonths, Rec(OriginA \o <<"/", "d", "/", "g", "/", "a", "b", "3">>, "h3", PERVASIVE_COUNT, 2000, "style"))
    \o InMonths(AllMonths, Rec(OriginA \o <<"/", "d", "/", "e", "/", "a", "b", "2">>, "h2", PERVASIVE_COUNT - 40000, 2000, "style"))

\* two origins, a blocked filename and a url that is too long
PoolOrigins ==
    InMonths(AllMonths, Rec(OriginB \o <<"/", "1", "/", "x">>, "h1", PERVASIVE_COUNT, 2000, "script"))
    \o InMonths(AllMonths, Rec(OriginA \o <<"/", "2", "/", "x">>, "h2", PERVASIVE_COUNT, 2000, "script"))
    \o InMonths(AllMonths, Rec(OriginA \o <<"/", "3", "/", "c", "h", "u", "n", "k">>, "h3", PERVASIVE_COUNT, 2000, "script"))
    \o InMonths(AllMonths, Rec(OriginA \o LongPath, "h4", PERVASIVE_COUNT, 2000, "script"))

\* one path under two urls, with and without a query string, and a sibling
PoolQueries ==
    InMonths(AllMonths, Rec(OriginA \o <<"/", "1", "/", "x", "?", "v">>, "h1", PERVASIVE_COUNT - 40000, 2000, "script"))
    \o InMonths(AllMonths, Rec(OriginA \o <<"/", "1", "/", "x">>, "h1", PERVASIVE_COUNT - 40000, 2000, "script"))
    \o InMonths(AllMonths, Rec(OriginA \o <<"/", "2", "/", "x">>, "h2", PERVASIVE_COUNT, 2000, "script"))

\* a version directory whose name is also the name of a later directory;
\* the third script has another destination
PoolRepeated ==
    InMonths(AllMonths, Rec(OriginA \o <<"/", "1", "/", "x", "/", "1", "/", "y">>, "h1", PERVASIVE_COUNT, 2000, "script"))
    \o InMonths(AllMonths, Rec(OriginA \o <<"/", "2", "/", "x", "/", "1", "/", "y">>, "h2", PERVASIVE_COUNT, 2000, "script"))
    \o InMonths(AllMonths, Rec(OriginA \o <<"/", "3", "/", "x", "/", "2", "/", "y">>, "h3", PERVASIVE_COUNT, 2000, "style"))

\* three versions of a script, each 5% of the first one's size larger
PoolSizes ==
    InMonths(AllMonths, Rec(OriginA \o <<"/", "1", "/", "x">>, "h1", PERVASIVE_COUNT, 2000, "script"))
    \o InMonths(AllMonths, Rec(OriginA \o <<"/", "2", "/", "x">>, "h2", PERVASIVE_COUNT, 2100, "script"))
    \o InMonths(AllMonths, Rec(OriginA \o <<"/", "3", "/", "x">>, "h3", PERVASIVE_COUNT, 2200, "script"))

\* urls whose path holds the character "*" itself, and a sibling
PoolStars ==
    InMonths(AllMonths, Rec(OriginA \o <<"/", "*">>, "h1", PERVASIVE_COUNT, 2000, "script"))
    \o InMonths(AllMonths, Rec(OriginA \o <<"/", "*", "/", "x">>, "h2", PERVASIVE_COUNT, 2000, "script"))
    \o InMonths(AllMonths, Rec(OriginA \o <<"/", "1", "/", "x">>, "h3", PERVASIVE_COUNT, 2000, "script"))

Pools == {PoolSegments, PoolHashes, PoolShortNames, PoolFilenames, PoolOrigins,
          PoolQueries, PoolRepeated, PoolSizes, PoolStars}

\* the two versions of app.js, 60000 occurrences each in every month
ExampleVersionSegment ==
    InMonths(AllMonths, Rec(OriginCdn \o <<"/", "v", "/", "1", ".", "2", ".", "3", "/", "a", "p", "p", ".", "j", "s">>, "h1", PERVASIVE_COUNT - 40000, 2000, "script"))
    \o InMonths(AllMonths, Rec(OriginCdn \o <<"/", "v", "/", "1", ".", "2", ".", "4", "/", "a", "p", "p", ".", "j", "s">>, "h2", PERVASIVE_COUNT - 40000, 2000, "script"))

\* the newer version in the current month, the older one in the months before
ExampleVersionSucceeds ==
    InMonths(<<current_date>>, Rec(OriginCdn \o <<"/", "v", "/", "1", ".", "2", ".", "4", "/", "a", "p", "p", ".", "j", "s">>, "h2", PERVASIVE_COUNT, 2000, "script"))
    \o InMonths(OlderMonths, Rec(OriginCdn \o <<"/", "v", "/", "1", ".", "2", ".", "3", "/", "a", "p", "p", ".", "j", "s">>, "h1", PERVASIVE_COUNT, 2000, "script"))

\* the two logos, sizes 2% apart
ExampleLogo ==
    InMonths(<<current_date>>, Rec(OriginCdn \o <<"/", "i", "m", "g", "/", "l", "o", "g", "o", "-", "2", "0", "2", "4", ".", "p", "n", "g">>, "h1", PERVASIVE_COUNT, 2000, "script"))
    \o InMonths(OlderMonths, Rec(OriginCdn \o <<"/", "i", "m", "g", "/", "l", "o", "g", "o", "-", "2", "0", "2", "5", ".", "p", "n", "g">>, "h2", PERVASIVE_COUNT, 2040, "script"))

\* the same logos one directory deeper
ExampleLogoDeeper ==
    InMonths(<<current_date>>, Rec(OriginCdn \o <<"/", "a", "/", "i", "m", "g", "/", "l", "o", "g", "o", "-", "2", "0", "2", "4", ".", "p", "n", "g">>, "h1", PERVASIVE_COUNT, 2000, "script"))
    \o InMonths(OlderMonths, Rec(OriginCdn \o <<"/", "a", "/", "i", "m", "g", "/", "l", "o", "g", "o", "-", "2", "0", "2", "5", ".", "p", "n", "g">>, "h2", PERVASIVE_COUNT, 2040, "script"))

Examples == {ExampleVersionSegment, ExampleVersionSucceeds, ExampleLogo,
             ExampleLogoDeeper}

\* up to MaxRecords observations of a pool, or a whole example
Feeds ==
    UNION {{FeedOf(Pick(pool, S)) : S \in SmallSubsets(Len(pool))} : pool \in Pools}
    \cup {FeedOf(example) : example \in Examples}
(***************************************************************************)
(* aggregate_urls (src/pervasive.py:511-524): the calls, in order          *)
(***************************************************************************)
Init ==
    /\ feed \in Feeds
    /\ pc = "load_date"
    /\ loaded = 0
    /\ origins = <<>>
    /\ destinations = [u \in {} |-> ""]
    /\ patterns = <<>>
    /\ scan = [started |-> FALSE, rest |-> <<>>]
    /\ patterns_file = [written |-> FALSE, lines |-> <<>>]
    /\ log = <<>>
    /\ removed = {}

\* history: the paths an action deletes from the working set
Deleted(os) == removed \cup (PathSet(origins) \ PathSet(os))

\* one iteration of "for date in self.dates: self.load_date(date)"
LoadDate ==
    /\ pc = "load_date"
    /\ loaded < Len(dates)
    /\ LET st == load_date([origins |-> origins, destinations |-> destinations],
                           dates[loaded + 1])
       IN  /\ origins' = st.origins
           /\ destinations' = st.destinations
    /\ loaded' = loaded + 1
    /\ pc' = IF loaded + 1 = Len(dates) THEN "find_pervasive_urls" ELSE "load_date"
    /\ UNCHANGED <<feed, patterns, scan, patterns_file, log, removed>>

FindPervasiveUrls ==
    /\ pc = "find_pervasive_urls"
    /\ LET st == find_pervasive_urls([origins |-> origins, patterns |-> patterns,
                                      log |-> log, removed |-> removed])
       IN  /\ origins' = st.origins
           /\ patterns' = st.patterns
           /\ log' = st.log
           /\ removed' = st.removed
    /\ pc' = "remove_long_urls"
    /\ UNCHANGED <<feed, loaded, destinations, scan, patterns_file>>

RemoveLongUrls ==
    /\ pc = "remove_long_urls"
    /\ origins' = remove_long_urls(origins)
    /\ removed' = Deleted(origins')
    /\ pc' = "remove_static_urls"
    /\ UNCHANGED <<feed, loaded, destinations, patterns, scan, patterns_file, log>>

RemoveStaticUrls ==
    /\ pc = "remove_static_urls"
    /\ origins' = remove_static_urls(origins)
    /\ removed' = Deleted(origins')
    /\ pc' = "remove_unversioned_urls"
    /\ UNCHANGED <<feed, loaded, destinations, patterns, scan, patterns_file, log>>

RemoveUnversionedUrls ==
    /\ pc = "remove_unversioned_urls"
    /\ origins' = remove_unversioned_urls(origins)
    /\ removed' = Deleted(origins')
    /\ pc' = "remove_blocked_urls"
    /\ UNCHANGED <<feed, loaded, destinations, patterns, scan, patterns_file, log>>

RemoveBlockedUrls ==
    /\ pc = "remove_blocked_urls"
    /\ origins' = remove_blocked_urls(origins)
    /\ removed' = Deleted(origins')
    /\ pc' = "find_patterns"
    /\ UNCHANGED <<feed, loaded, destinations, patterns, scan, patterns_file, log>>

\* find_patterns: the key lists of the seed loops are taken when the loops
\* start; each step runs the body for the next <<origin, path>>
FindPatternsStep ==
    /\ pc = "find_patterns"
    /\ LET rest == IF scan.started THEN scan.rest ELSE AllPaths(origins)
       IN  IF rest = <<>>
           THEN /\ scan' = [started |-> TRUE, rest |-> <<>>]
                /\ pc' = "remove_duplicate_patterns"
                /\ UNCHANGED <<origins, patterns, log, removed>>
           ELSE LET st == SeedStep(rest[1][1], rest[1][2])
                IN  /\ origins' = st.origins
                    /\ patterns' = st.patterns
                    /\ log' = st.log
                    /\ removed' = Deleted(st.origins)
                    /\ scan' = [started |-> TRUE, rest |-> Tail(rest)]
                    /\ pc' = IF Tail(rest) = <<>> THEN "remove_duplicate_patterns"
                             ELSE "find_patterns"
    /\ UNCHANGED <<feed, loaded, destinations, patterns_file>>

\* a ValueError of list.remove ends the run
RemoveDuplicatePatterns ==
    /\ pc = "remove_duplicate_patterns"
    /\ LET st == remove_duplicate_patterns(patterns)
       IN  /\ patterns' = st.patterns
           /\ pc' = IF st.error THEN "ValueError" ELSE "write_patterns"
    /\ UNCHANGED <<feed, loaded, origins, destinations, scan, patterns_file, log,
                   removed>>

\* show_unmatched only logs; then self.patterns.sort() and write_patterns()
WritePatterns ==
    /\ pc = "write_patterns"
    /\ patterns' = SortStrings(patterns)
    /\ patterns_file' = [written |-> TRUE, lines |-> patterns']
    /\ pc' = "done"
    /\ UNCHANGED <<feed, loaded, origins, destinations, scan, log, removed>>

Next ==
    \/ LoadDate
    \/ FindPervasiveUrls
    \/ RemoveLongUrls
    \/ RemoveStaticUrls
    \/ RemoveUnversionedUrls
    \/ RemoveBlockedUrls
    \/ FindPatternsStep
    \/ RemoveDuplicatePatterns
    \/ WritePatterns

Spec == Init /\ [][Next]_vars
(***************************************************************************)
(* Properties                                                              *)
(***************************************************************************)
LogEntries == {log[i] : i \in 1..Len(log)}

\* the paths a log entry used: its seed, its candidates, what it matched
Used(e) == {e.seed} \cup {e.candidates[i] : i \in 1..Len(e.candidates)} \cup e.matched

RECURSIVE SumNum(_, _)
SumNum(raw, url) ==
    IF raw = <<>> THEN 0
    ELSE (IF UrlOrigin(raw[1].url) \o UrlPath(raw[1].url) = url
          THEN raw[1].num ELSE 0)
         + SumNum(Tail(raw), url)

\* the occurrences of a url in the file of a month, over all its hashes
FeedCount(url, date) == SumNum(feed[date], url)

\* data in every tracked month, at or over the threshold in each
PervasiveInFeed(origin, path) ==
    \A d \in 1..NumMonths : FeedCount(origin \o path, dates[d]) >= PERVASIVE_COUNT

\* C1 (threshold invariant): every pattern in the pattern list was put there
\* by a validation, and in each validation that accepted it the occurrences
\* of the paths of that origin's working set that match it, summed per
\* tracked month, were at least PERVASIVE_COUNT in every month.
C1_Threshold ==
    /\ \A i \in 1..Len(patterns) :
           \E e \in LogEntries : e.accepted /\ e.origin \o e.pattern = patterns[i]
    /\ \A e \in LogEntries :
           e.accepted => \A d \in 1..NumMonths : e.sums[d] >= PERVASIVE_COUNT

\* a finished run whose output holds a wildcard pattern and an exact url
C1_Witness ==
    /\ pc = "done"
    /\ \E e \in LogEntries :
           e.kind = "pattern" /\ e.accepted /\ InSeq(e.origin \o e.pattern, patterns)
    /\ \E e \in LogEntries :
           e.kind = "fixed" /\ InSeq(e.origin \o e.pattern, patterns)

\* C2 (reflexivity): every pattern find_patterns accepts matches the seed
\* path it was synthesized for.
C2_Reflexivity ==
    \A e \in LogEntries :
        (e.kind = "pattern" /\ e.accepted) => url_matches_pattern(e.seed, e.pattern)

\* C3 (deduplication): once remove_duplicate_patterns has returned, no
\* pattern of the list is matched by a shorter pattern of the list.
C3_Dedup ==
    pc \in {"write_patterns", "done"} =>
        \A i, j \in 1..Len(patterns) :
            Len(patterns[i]) < Len(patterns[j])
                => ~url_matches_pattern(patterns[j], patterns[i])

\* a finished run in which deduplication dropped an accepted pattern
C3_Witness ==
    /\ pc = "done"
    /\ \E e \in LogEntries : e.accepted /\ ~InSeq(e.origin \o e.pattern, patterns)
    /\ patterns # <<>>

\* C4 (disjointness): no path is matched by two accepted patterns of its
\* origin, and no seed, candidate or matched path of a validation had been
\* deleted from the working set before.
C4_Disjoint ==
    /\ \A i, j \in 1..Len(log) :
           (i < j /\ log[i].origin = log[j].origin
                  /\ log[i].accepted /\ log[j].accepted)
               => log[i].matched \cap log[j].matched = {}
    /\ \A e \in LogEntries :
           \A p \in Used(e) : <<e.origin, p>> \notin e.gone

\* a validation of an origin that had lost paths to an accepted pattern
C4_Witness ==
    \E i, j \in 1..Len(log) :
        /\ i < j
        /\ log[i].origin = log[j].origin
        /\ log[i].accepted
        /\ log[i].matched # {}
        /\ log[j].kind # "fixed"
        /\ log[i].kind # "fixed"

\* C6 (pervasive-fixed): when find_pervasive_urls returns, a path with data
\* at or over PERVASIVE_COUNT in every tracked month (summed over its hashes)
\* is in the pattern list as origin+path and out of the working set, every
\* other path is not in the list and still in the working set; the pattern
\* recorded is the text of the path, nothing in it replaced by a wildcard;
\* and no pervasive path is ever a seed, a candidate or a match in
\* find_patterns.
C6_PervasiveFixed ==
    /\ pc = "remove_long_urls" =>
           \A op \in PathSet(origins) \cup removed :
               IF PervasiveInFeed(op[1], op[2])
               THEN InSeq(op[1] \o op[2], patterns) /\ op \notin PathSet(origins)
               ELSE ~InSeq(op[1] \o op[2], patterns) /\ op \in PathSet(origins)
    /\ \A e \in LogEntries :
           IF e.kind = "fixed"
           THEN e.pattern = e.seed /\ e.raw = e.seed /\ e.matched = {e.seed}
           ELSE \A p \in Used(e) : ~PervasiveInFeed(e.origin, p)

\* find_pervasive_urls has returned, took one path and left another
C6_Witness ==
    /\ pc = "remove_long_urls"
    /\ \E op \in removed : PervasiveInFeed(op[1], op[2])
    /\ \E op \in PathSet(origins) : ~PervasiveInFeed(op[1], op[2])

CurrentOrigins ==
    {UrlOrigin(feed[current_date][i].url) : i \in 1..Len(feed[current_date])}

OlderRecords ==
    UNION {{<<dates[d], feed[dates[d]][i]>> : i \in 1..Len(feed[dates[d]])} :
              d \in 2..NumMonths}

\* the path, date and hash of the record are in the index
Ingested(date, r) ==
    /\ DHas(origins, UrlOrigin(r.url))
    /\ DHas(DGet(origins, UrlOrigin(r.url)), UrlPath(r.url))
    /\ DHas(DGet(DGet(origins, UrlOrigin(r.url)), UrlPath(r.url)), date)
    /\ DHas(DGet(DGet(DGet(origins, UrlOrigin(r.url)), UrlPath(r.url)), date),
            r.body_hash)

\* C7 (origin lifecycle): when every month is loaded, the tracked origins are
\* the origins of the current month's records; an older record is left out
\* exactly when its origin is not among them, and otherwise its path, date
\* and hash are in the index.
C7_Lifecycle ==
    pc = "find_pervasive_urls" =>
        /\ DKeySet(origins) = CurrentOrigins
        /\ \A dr \in OlderRecords :
               IF UrlOrigin(dr[2].url) \in CurrentOrigins
               THEN Ingested(dr[1], dr[2])
               ELSE /\ ~DHas(origins, UrlOrigin(dr[2].url))
                    /\ dr[2].url \notin DOMAIN destinations

\* every month is loaded; one older record was skipped, another was added
C7_Witness ==
    /\ pc = "find_pervasive_urls"
    /\ \E dr \in OlderRecords : UrlOrigin(dr[2].url) \notin CurrentOrigins
    /\ \E dr \in OlderRecords :
           /\ UrlOrigin(dr[2].url) \in CurrentOrigins
           /\ \A i \in 1..Len(feed[current_date]) :
                  feed[current_date][i].url # dr[2].url

WorkingSetOf(os, origin) ==
    IF DHas(os, origin) THEN DKeySet(DGet(os, origin)) ELSE {}

\* what a step that validated pattern pat of the origin, with these sums of
\* occurrences per month, must do
Consumes(origin, pat, sums) ==
    /\ WorkingSetOf(origins', origin) =
           {p \in WorkingSetOf(origins, origin) : ~url_matches_pattern(p, pat)}
    /\ patterns' = IF \A d \in 1..NumMonths : sums[d] >= PERVASIVE_COUNT
                   THEN Append(patterns, origin \o pat)
                   ELSE patterns

\* the step added a log entry of a validated pattern
ValidationStep ==
    Len(log') = Len(log) + 1 /\ log'[Len(log')].kind = "pattern"

\* C8 (validator consumption): a step of find_patterns that synthesizes a
\* pattern deletes from the origin's working set exactly the paths the pattern
\* matches, whether the pattern is accepted or rejected, and adds the pattern
\* to the list only when every month reaches the threshold.
C8_Consumption ==
    [][ValidationStep =>
          Consumes(log'[Len(log')].origin, log'[Len(log')].pattern,
                   log'[Len(log')].sums)]_vars

\* a rejected pattern that had matched paths
C8_Witness ==
    \E e \in LogEntries :
        /\ e.kind = "pattern"
        /\ ~e.accepted
        /\ e.matched # {}
        /\ e.matched \cap WorkingSetOf(origins, e.origin) = {}

AppJsPattern == OriginCdn \o <<"/", "v", "/", "*", "/", "a", "p", "p", ".", "j", "s">>

\* C9 as claimed: the run on the two versions of app.js, 60000 occurrences
\* each in every month, outputs https://cdn.example/v/*/app.js.
C9_AsClaimed ==
    (feed = FeedOf(ExampleVersionSegment) /\ pc = "done")
        => InSeq(AppJsPattern, patterns)

\* C9 as amended: that run outputs no pattern, both paths being deleted as
\* static (data in every month, one hash) before find_patterns; the pattern
\* is the output when the newer version has data only in the current month
\* and the older version only in the months before, 100000 occurrences each.
C9_Amended ==
    /\ (feed = FeedOf(ExampleVersionSegment) /\ pc = "done")
           => /\ patterns = <<>>
              /\ patterns_file.lines = <<>>
              /\ log = <<>>
              /\ removed = {<<OriginCdn, <<"/", "v", "/", "1", ".", "2", ".", "3", "/", "a", "p", "p", ".", "j", "s">>>>,
                            <<OriginCdn, <<"/", "v", "/", "1", ".", "2", ".", "4", "/", "a", "p", "p", ".", "j", "s">>>>}
    /\ (feed = FeedOf(ExampleVersionSucceeds) /\ pc = "done")
           => patterns_file.lines = <<AppJsPattern>>

C9_Witness ==
    /\ feed = FeedOf(ExampleVersionSegment)
    /\ pc = "done"
    /\ patterns_file.written

Logo2024 == <<"/", "i", "m", "g", "/", "l", "o", "g", "o", "-", "2", "0", "2", "4", ".", "p", "n", "g">>
Logo2025 == <<"/", "i", "m", "g", "/", "l", "o", "g", "o", "-", "2", "0", "2", "5", ".", "p", "n", "g">>

\* C10 as claimed: for seed /img/logo-2024.png with the single candidate
\* /img/logo-2025.png pattern synthesis yields /img/logo-*.png.
C10_AsClaimed ==
    \A e \in LogEntries :
        (e.seed = Logo2024 /\ e.candidates = <<Logo2025>>)
            => e.raw = <<"/", "i", "m", "g", "/", "l", "o", "g", "o", "-", "*", ".", "p", "n", "g">>

\* C10 as amended: for that seed and candidate create_filename_pattern yields
\* logo-202*.png and find_path_pattern yields no pattern, two stable segments
\* not being more than MIN_STABLE_PATH; one directory deeper the pattern is
\* /a/img/logo-202*.png.
C10_Amended ==
    \A e \in LogEntries :
        /\ (e.seed = Logo2024 /\ e.candidates = <<Logo2025>>)
               => /\ e.raw = None
                  /\ create_filename_pattern(e.seed, e.candidates)
                         = <<"l", "o", "g", "o", "-", "2", "0", "2", "*", ".", "p", "n", "g">>
        /\ (e.seed = <<"/", "a">> \o Logo2024
                /\ e.candidates = << <<"/", "a">> \o Logo2025 >>)
               => e.raw = <<"/", "a", "/", "i", "m", "g", "/", "l", "o", "g", "o", "-", "2", "0", "2", "*", ".", "p", "n", "g">>

C10_Witness ==
    \E e \in LogEntries : e.seed = Logo2024 /\ e.candidates = <<Logo2025>>

\* the tracked months whose file holds no record
MissingMonths == {d \in 1..NumMonths : feed[dates[d]] = <<>>}

\* C11 (missing month): when the file of a tracked month holds no record, the
\* run never ends in an error, no path is recorded by find_pervasive_urls, no
\* path of the working set has data for that month, every validated pattern
\* sums that month to zero and is rejected, and the pattern list stays empty.
C11_MissingMonth ==
    MissingMonths # {} =>
        /\ pc # "ValueError"
        /\ patterns = <<>>
        /\ \A e \in LogEntries :
               /\ e.kind # "fixed"
               /\ ~e.accepted
               /\ \A d \in MissingMonths : e.sums[d] = 0
        /\ \A op \in PathSet(origins) : \A d \in MissingMonths :
               /\ ~DHas(DGet(DGet(origins, op[1]), op[2]), dates[d])
               /\ DateTotal(DGet(DGet(origins, op[1]), op[2]), dates[d]) = 0
               /\ ~IsPervasiveUrl(DGet(DGet(origins, op[1]), op[2]))

\* a run with a month missing has ended; it validated a pattern whose paths
\* reach the threshold in a month that has data
C11_Witness ==
    /\ pc = "done"
    /\ MissingMonths # {}
    /\ \E e \in LogEntries :
           /\ e.kind = "pattern"
           /\ \E d \in 1..NumMonths : e.sums[d] >= PERVASIVE_COUNT

\* the occurrences of the records of a file with that origin, path and hash
RECURSIVE RecordSum(_, _, _, _)
RecordSum(raw, origin, path, hash) ==
    IF raw = <<>> THEN 0
    ELSE (IF /\ UrlOrigin(raw[1].url) = origin
             /\ UrlPath(raw[1].url) = path
             /\ raw[1].body_hash = hash
          THEN raw[1].num ELSE 0)
         + RecordSum(Tail(raw), origin, path, hash)

LoadedDates == {dates[d] : d \in 1..loaded}

\* C12 (ingest accumulation): after each load_date, every count stored for an
\* origin, path, date and hash is of a loaded month and is the sum of the
\* occurrences of all the records of that month's file with that origin, path
\* and hash, those of the months loaded before included; and every record of
\* a loaded month whose origin is tracked has its entry.
C12_Accumulation ==
    /\ \A i \in 1..Len(origins) : \A j \in 1..Len(origins[i].v) :
       \A k \in 1..Len(origins[i].v[j].v) :
       \A h \in 1..Len(origins[i].v[j].v[k].v) :
           /\ origins[i].v[j].v[k].k \in LoadedDates
           /\ origins[i].v[j].v[k].v[h].v.count =
                  RecordSum(feed[origins[i].v[j].v[k].k], origins[i].k,
                            origins[i].v[j].k, origins[i].v[j].v[k].v[h].k)
    /\ pc \in {"load_date", "find_pervasive_urls"} =>
           \A date \in LoadedDates : \A r \in 1..Len(feed[date]) :
               DHas(origins, UrlOrigin(feed[date][r].url))
                   => Ingested(date, feed[date][r])

\* a month is loaded whose file holds two records of one path and hash, and
\* the next month is still to load
C12_Witness ==
    /\ pc = "load_date"
    /\ loaded >= 1
    /\ \E a, b \in 1..Len(feed[current_date]) :
           /\ a < b
           /\ UrlOrigin(feed[current_date][a].url) = UrlOrigin(feed[current_date][b].url)
           /\ UrlPath(feed[current_date][a].url) = UrlPath(feed[current_date][b].url)
           /\ feed[current_date][a].body_hash = feed[current_date][b].body_hash

\* C13 (working-set monotonicity): once every month is loaded, no step adds a
\* path to the working set of an origin, and no path deleted by this or an
\* earlier step is in the working set after the step.
C13_Monotone ==
    [][pc # "load_date" =>
          /\ PathSet(origins') \subseteq PathSet(origins)
          /\ \A origin \in DKeySet(origins') :
                 /\ DHas(origins, origin)
                 /\ WorkingSetOf(origins', origin) \subseteq WorkingSetOf(origins, origin)
          /\ removed' \cap PathSet(origins') = {}
          /\ removed \subseteq removed']_vars

\* the run has ended; a stage before find_patterns deleted a path, then
\* find_patterns deleted the paths of a pattern
C13_Witness ==
    /\ pc = "done"
    /\ \E e \in LogEntries :
           e.kind = "pattern" /\ e.gone # {} /\ e.matched # {}

\* '/'.join(parts)
RECURSIVE JoinSegments(_)
JoinSegments(parts) ==
    IF Len(parts) = 1 THEN parts[1]
    ELSE parts[1] \o <<"/">> \o JoinSegments(Tail(parts))

\* the path with a "*" at each index of the difference set and the text of
\* the path's own segment at every other index
StarredPath(path, candidates) ==
    LET parts == StrSplit(path)
        diffs == PathDifferences(parts, candidates)
    IN  JoinSegments([i \in 1..Len(parts) |->
                         IF InSeq(i - 1, diffs) THEN <<"*">> ELSE parts[i]])

\* the seed differs from its candidates, not in the filename, and more than
\* MIN_STABLE_PATH segments do not differ
OnlySegmentsDiffer(path, candidates) ==
    LET parts == StrSplit(path)
        diffs == PathDifferences(parts, candidates)
    IN  /\ diffs # <<>>
        /\ diffs[Len(diffs)] # Len(parts) - 1
        /\ Len(parts) - Len(diffs) > MIN_STABLE_PATH

\* C14 (path-segment wildcard): for a seed that differs from its candidates
\* only in segments before the filename, more than MIN_STABLE_PATH segments
\* not differing, find_path_pattern returns the seed path with "*" in place
\* of each differing segment and every other segment as it is in the seed.
C14_SegmentWildcard ==
    \A e \in LogEntries :
        (e.kind # "fixed" /\ OnlySegmentsDiffer(e.seed, e.candidates))
            => e.raw = StarredPath(e.seed, e.candidates)

\* the step ran the candidate scan of a seed and found candidates
CandidateStep ==
    Len(log') = Len(log) + 1 /\ log'[Len(log')].kind # "fixed"

\* the seed's size in the current month, before the step
TargetSize(origin, seed) ==
    DGet(DGet(DGet(origins, origin), seed), current_date)[1].v.size

\* the sizes of the candidates, in the order of the candidate list
CandidateSizes(origin, candidates) ==
    [i \in 1..Len(candidates) |->
        FirstSize(DGet(DGet(origins, origin), candidates[i]))]

RECURSIVE InWindow(_, _, _, _, _)
InWindow(sizes, lo, hi, target, n) ==
    \/ sizes = <<>>
    \/ /\ (lo - sizes[1]) * 100 <= SIZE_MATCH_PERCENT * target
       /\ (sizes[1] - hi) * 100 <= SIZE_MATCH_PERCENT * target
       /\ Abs(sizes[1] - target) * 100 <= n * SIZE_MATCH_PERCENT * target
       /\ InWindow(Tail(sizes), Min(lo, sizes[1]), Max(hi, sizes[1]), target, n + 1)

C16_DedupNeverFails == pc # "ValueError"
====
